---------------------------- MODULE Spec2Model ----------------------------
(***************************************************************************)
(* Model of Googlescholar/verify_scholar_papers.py: the interactive        *)
(* prompt, the two bibliographic adapters (Crossref, Semantic Scholar),    *)
(* verify_publication (scan, classification, result record) and the batch  *)
(* loop of main.                                                           *)
(*                                                                         *)
(* Numbers.  Similarity scores (rapidfuzz, 0..100) and confidence scores   *)
(* are kept in hundredths (0..10000); the composite score                  *)
(* 0.65*ts + 0.25*ascore + 5 + bonus is kept in ten-thousandths, so that   *)
(* the weights are the integers 65 and 25 and round(score, 2) is a real    *)
(* rounding.  The arithmetic is exact; Python computes in binary floating  *)
(* point, which gives the same comparisons and roundings on the tabulated  *)
(* ratios.                                                                 *)
(*                                                                         *)
(* Strings.  The author name typed at the prompt is a sequence of          *)
(* characters, so that strip, normalize and split are computed.  Titles    *)
(* and candidate author names are TLA+ strings; rapidfuzz is an external   *)
(* library and its ratios on those strings are tabulated.                  *)
(***************************************************************************)
EXTENDS Integers, Sequences, FiniteSets, TLC

VARIABLES
    pc,                 \* position of main
    name,               \* prompt_inputs: stripped author name (characters)
    orcid,              \* prompt_inputs: ORCID iD or None
    scopus_id,          \* prompt_inputs: Scopus Author ID or None
    researcher_id,      \* prompt_inputs: ResearcherID or None
    pubs,               \* main: the claimed publications (titles)
    i,                  \* main: enumerate index of the publication in hand
    resp,               \* the HTTP response the running adapter received
    candidates,         \* verify_publication: candidate pool built so far
    best,               \* verify_publication: best candidate or None
    best_score,         \* verify_publication: its composite (ten-thousandths)
    best_author_score,  \* verify_publication: its author score (hundredths)
    best_doi,           \* verify_publication: its DOI-presence flag
    res,                \* main: the result verify_publication returned
    results,            \* main: results appended so far
    authentic_count,    \* main: number of AUTHENTIC results
    report,             \* the CSV file: whether it was created, and its rows
    exc                 \* exception that ended the run, or None

vars == <<pc, name, orcid, scopus_id, researcher_id, pubs, i, resp, candidates,
          best, best_score, best_author_score, best_doi, res, results,
          authentic_count, report, exc>>

---------------------------------------------------------------------------
(* Bounds of the model *)

MaxNameLen == 1

MaxRespHits == 4

MaxPubs == 2

---------------------------------------------------------------------------
(* Program constants *)

\* crossref_lookup: params rows
Rows == 3

\* semantic_lookup: params limit
Limit == 3

\* cap_score: upper clamp, 100.0 in hundredths
ScoreCap == 10000

\* verify_publication: score of the empty-pool result, 85 in hundredths
EmptyPoolScore == 8500

\* verify_publication: best_author_score >= 85, in hundredths
AuthenticAuthorScore == 8500

\* verify_publication: best_score >= 75, in ten-thousandths
LikelyAuthenticScore == 750000

\* verify_publication: best_score >= 60, in ten-thousandths
ScholarClaimedScore == 600000

\* verify_publication: initial best_score of -1, in ten-thousandths
InitialBestScore == -10000

---------------------------------------------------------------------------
(* Values *)

None == "None"

NoFile == [written |-> FALSE, rows |-> <<>>]

NoResponse == [kind |-> "none", items |-> <<>>]

NoResult ==
    [claimed_title |-> None, matched_title |-> None, matched_source |-> None,
     doi |-> None, confidence_score |-> 0, classification |-> None,
     verification_strength |-> None, reason |-> None]

NoCandidate ==
    [title |-> None, authors |-> <<>>, doi |-> None,
     orcid |-> [present |-> FALSE, ids |-> <<>>], source |-> None]

SeqsUpTo(S, n) == UNION {[1..k -> S] : k \in 0..n}

NoRepeat(s) == \A j, k \in 1..Len(s) : j # k => s[j] # s[k]

Range(s) == {s[k] : k \in 1..Len(s)}

Max(S) == CHOOSE m \in S : \A n \in S : n <= m

Min2(a, b) == IF a <= b THEN a ELSE b

---------------------------------------------------------------------------
(* Utilities: normalize, last_name *)

NameChars == {"A", ".", " "}

\* str.lower on one character
Lower(c) == IF c = "A" THEN "a" ELSE c

\* re.sub(r"[^\w\s]", " ", text) on one character
Depunctuate(c) == IF c \in {"a", " "} THEN c ELSE " "

\* str.split(): the maximal runs of non-whitespace characters
RECURSIVE SplitFrom(_, _, _)
SplitFrom(s, k, word) ==
    IF k > Len(s)
        THEN IF word = <<>> THEN <<>> ELSE <<word>>
        ELSE IF s[k] = " "
            THEN (IF word = <<>> THEN <<>> ELSE <<word>>) \o SplitFrom(s, k + 1, <<>>)
            ELSE SplitFrom(s, k + 1, Append(word, s[k]))

Split(s) == SplitFrom(s, 1, <<>>)

\* " ".join(words)
RECURSIVE Join(_)
Join(words) ==
    IF words = <<>> THEN <<>>
    ELSE IF Len(words) = 1 THEN words[1]
    ELSE words[1] \o <<" ">> \o Join(Tail(words))

\* str.strip()
RECURSIVE Strip(_)
Strip(s) ==
    IF s = <<>> THEN <<>>
    ELSE IF s[1] = " " THEN Strip(Tail(s))
    ELSE IF s[Len(s)] = " " THEN Strip(SubSeq(s, 1, Len(s) - 1))
    ELSE s

normalize(text) ==
    IF text = <<>> THEN <<>>
    ELSE Join(Split([k \in 1..Len(text) |-> Depunctuate(Lower(text[k]))]))

\* normalize(full_name).split()[-1]: IndexError when there is no word
last_name(full_name) ==
    LET words == Split(normalize(full_name))
    IN  IF words = <<>> THEN [exc |-> "IndexError", value |-> <<>>]
        ELSE [exc |-> None, value |-> words[Len(words)]]

---------------------------------------------------------------------------
(* rapidfuzz, tabulated on the strings of the model (hundredths) *)

\* fuzz.partial_ratio(query, normalize(author)) for the three queries that
\* author_name_score builds from the claimed name
partial_ratio(query, author) ==
    CASE author = "Jane Smith" ->
            (CASE query = "full" -> 10000 [] query = "last" -> 10000 [] OTHER -> 9000)
      [] author = "Smith" ->
            (CASE query = "full" -> 10000 [] query = "last" -> 10000 [] OTHER -> 10000)
      [] author = "K Smythe" ->
            (CASE query = "full" -> 6000 [] query = "last" -> 8000 [] OTHER -> 7100)
      [] author = "Someone Else" ->
            (CASE query = "full" -> 5000 [] query = "last" -> 6667 [] OTHER -> 4000)
      [] author = "Ann Other" ->
            (CASE query = "full" -> 2500 [] query = "last" -> 3200 [] OTHER -> 3000)
      [] OTHER -> 0

\* fuzz.token_set_ratio(normalize(a), normalize(b))
token_set_ratio(a, b) ==
    CASE a = b -> 10000
      [] b = a \o " revisited" -> 8000
      [] OTHER -> 0

---------------------------------------------------------------------------
(* Utilities: scores *)

Queries == {"full", "last", "initial_last"}

\* IndexError from last_name (and from full[0]) when the normalized name is
\* empty; otherwise the maximum of the three ratios over all authors, 0 for
\* an empty author list
author_name_score(full_name, authors) ==
    LET full == normalize(full_name)
        last == last_name(full_name)
    IN  IF last.exc # None \/ full = <<>>
            THEN [exc |-> "IndexError", value |-> 0]
            ELSE LET scores == {partial_ratio(q, authors[k]) :
                                    q \in Queries, k \in 1..Len(authors)}
                 IN  [exc |-> None,
                      value |-> IF scores = {} THEN 0 ELSE Max(scores)]

title_score(a, b) == token_set_ratio(a, b)

\* round(x, 2) of a score given in ten-thousandths; the result is in
\* hundredths (ties to even)
Round2(x) ==
    LET q == x \div 100
        r == x % 100
    IN  IF r > 50 \/ (r = 50 /\ q % 2 = 1) THEN q + 1 ELSE q

\* cap_score without the clamp: round(score, 2) alone
cap_score_unclamped(score) == Round2(score)

cap_score(score) == Min2(Round2(score), ScoreCap)

---------------------------------------------------------------------------
(* External metadata APIs *)

CrossrefItemRaises(item) == item.title = <<>>

\* f"{a.get('given','')} {a.get('family','')}".strip()
GivenFamily(a) ==
    IF a.given = "" THEN a.family
    ELSE IF a.family = "" THEN a.given
    ELSE a.given \o " " \o a.family

RECURSIVE OrcidsOf(_)
OrcidsOf(authors) ==
    IF authors = <<>> THEN <<>>
    ELSE (IF authors[1].ORCID # None THEN <<authors[1].ORCID>> ELSE <<>>)
            \o OrcidsOf(Tail(authors))

CrossrefRecord(item) ==
    [title   |-> item.title[1],
     authors |-> [k \in 1..Len(item.author) |-> GivenFamily(item.author[k])],
     doi     |-> item.DOI,
     orcid   |-> [present |-> TRUE, ids |-> OrcidsOf(item.author)],
     source  |-> "Crossref"]

\* [] on a requests exception, on not r.ok, on a body that is not the
\* expected JSON, and when mapping any item raises; else one record per item
crossref_lookup(r) ==
    IF r.kind # "ok" THEN <<>>
    ELSE IF \E k \in 1..Len(r.items) : CrossrefItemRaises(r.items[k]) THEN <<>>
    ELSE [k \in 1..Len(r.items) |-> CrossrefRecord(r.items[k])]

SemanticItemRaises(d) == d.externalIds.kind = "null"

SemanticRecord(d) ==
    [title   |-> d.title,
     authors |-> [k \in 1..Len(d.authors) |-> d.authors[k].name],
     doi     |-> IF d.externalIds.kind = "object" THEN d.externalIds.DOI ELSE None,
     orcid   |-> [present |-> FALSE, ids |-> <<>>],
     source  |-> "SemanticScholar"]

\* semantic_lookup returning the records mapped before the item that raised
semantic_lookup_partial(r) ==
    IF r.kind # "ok" THEN <<>>
    ELSE LET bad == {k \in 1..Len(r.items) : SemanticItemRaises(r.items[k])}
             n == IF bad = {} THEN Len(r.items)
                  ELSE (CHOOSE k \in bad : \A j \in bad : k <= j) - 1
         IN  [k \in 1..n |-> SemanticRecord(r.items[k])]

semantic_lookup(r) ==
    IF r.kind # "ok" THEN <<>>
    ELSE IF \E k \in 1..Len(r.items) : SemanticItemRaises(r.items[k]) THEN <<>>
    ELSE [k \in 1..Len(r.items) |-> SemanticRecord(r.items[k])]

---------------------------------------------------------------------------
(* Identity bonus, verification strength *)

\* hit.get("orcid") or []
HitOrcids(hit) == IF hit.orcid.present THEN Range(hit.orcid.ids) ELSE {}

id_bonus(o, s, r, hit) ==
    LET b1 == IF o # None /\ hit # NoCandidate /\ o \in HitOrcids(hit) THEN 15 ELSE 0
        b2 == IF s # None THEN 5 ELSE 0
        b3 == IF r # None THEN 5 ELSE 0
    IN  Min2(b1 + b2 + b3, 25)

\* verification_strength that grants Strong on the ORCID alone
verification_strength_orcid_only(o, doi_present) ==
    IF o # None THEN "Strong (ORCID + DOI)"
    ELSE IF doi_present THEN "Moderate (Name + DOI)"
    ELSE "Basic (Scholar-only)"

verification_strength(o, doi_present) ==
    IF o # None /\ doi_present THEN "Strong (ORCID + DOI)"
    ELSE IF doi_present THEN "Moderate (Name + DOI)"
    ELSE "Basic (Scholar-only)"

---------------------------------------------------------------------------
(* Verification logic *)

\* bool(c.get("doi"))
DoiPresent(c) == c.doi # None /\ c.doi # ""

\* the composite without the author term
composite_score_without_author(ts, ascore, doi_present, bonus) ==
    65 * ts + (IF doi_present THEN 50000 ELSE 0) + 10000 * bonus

\* 0.65 * ts + 0.25 * ascore + (5 if doi_present else 0) + id_bonus(...),
\* in ten-thousandths
composite_score(ts, ascore, doi_present, bonus) ==
    65 * ts + 25 * ascore + (IF doi_present THEN 50000 ELSE 0) + 10000 * bonus

\* the comparison with >= : the last maximum wins
BetterOrEqual(score, incumbent) == score >= incumbent

\* if score > best_score
Better(score, incumbent) == score > incumbent

\* One iteration of the for loop up to the comparison: ts, ascore,
\* doi_present and score of candidate c, or the exception raised
Scored(title, full_name, o, s, r, c) ==
    LET ts == title_score(title, c.title)
        a == author_name_score(full_name, c.authors)
        doi_present == DoiPresent(c)
    IN  [exc |-> a.exc, ts |-> ts, ascore |-> a.value, doi_present |-> doi_present,
         score |-> composite_score(ts, a.value, doi_present, id_bonus(o, s, r, c))]

\* The for loop over the candidates: <<best, best_score, best_author_score,
\* best_doi>> after the candidates cands, starting from st, or the exception
\* author_name_score raised
RECURSIVE Scan(_, _, _, _, _, _, _)
Scan(title, full_name, o, s, r, cands, st) ==
    IF cands = <<>> THEN st
    ELSE LET c == cands[1]
             sc == Scored(title, full_name, o, s, r, c)
         IN  IF sc.exc # None
                 THEN [st EXCEPT !.exc = sc.exc]
                 ELSE Scan(title, full_name, o, s, r, Tail(cands),
                           IF Better(sc.score, st.best_score)
                               THEN [exc |-> None, best |-> c,
                                     best_score |-> sc.score,
                                     best_author_score |-> sc.ascore,
                                     best_doi |-> sc.doi_present]
                               ELSE st)

ScanStart ==
    [exc |-> None, best |-> NoCandidate, best_score |-> InitialBestScore,
     best_author_score |-> 0, best_doi |-> FALSE]

\* the label with the composite thresholds tried before the author score
classification_composite_first(author_score, score) ==
    IF score >= LikelyAuthenticScore THEN "LIKELY AUTHENTIC"
    ELSE IF score >= ScholarClaimedScore THEN "SCHOLAR-CLAIMED OUTPUT"
    ELSE IF author_score >= AuthenticAuthorScore THEN "AUTHENTIC"
    ELSE "LIKELY MISATTRIBUTED"

\* the label without the SCHOLAR-CLAIMED OUTPUT tier
classification_without_scholar_tier(author_score, score) ==
    IF author_score >= AuthenticAuthorScore THEN "AUTHENTIC"
    ELSE IF score >= LikelyAuthenticScore THEN "LIKELY AUTHENTIC"
    ELSE "LIKELY MISATTRIBUTED"

classification(author_score, score) ==
    IF author_score >= AuthenticAuthorScore THEN "AUTHENTIC"
    ELSE IF score >= LikelyAuthenticScore THEN "LIKELY AUTHENTIC"
    ELSE IF score >= ScholarClaimedScore THEN "SCHOLAR-CLAIMED OUTPUT"
    ELSE "LIKELY MISATTRIBUTED"

build_result(title, b, score, label, reason, strength) ==
    [claimed_title         |-> title,
     matched_title         |-> IF b # NoCandidate THEN b.title ELSE "",
     matched_source        |-> IF b # NoCandidate THEN b.source ELSE "Google Scholar only",
     doi                   |-> IF b # NoCandidate THEN b.doi ELSE "",
     confidence_score      |-> score,
     classification        |-> label,
     verification_strength |-> strength,
     reason                |-> reason]

---------------------------------------------------------------------------
(* The external services: what a title search can answer *)

CrossrefAuthor(given, family, oid) == [given |-> given, family |-> family, ORCID |-> oid]

CrossrefCatalogue ==
    { [title |-> <<"P1">>, DOI |-> "10.1/a",
       author |-> <<CrossrefAuthor("Jane", "Smith", "O1")>>],
      [title |-> <<"P1">>, DOI |-> "10.1/b",
       author |-> <<CrossrefAuthor("K", "Smythe", None)>>],
      [title |-> <<"P1 revisited">>, DOI |-> None,
       author |-> <<>>],
      [title |-> <<"Unrelated">>, DOI |-> None,
       author |-> <<CrossrefAuthor("", "Smith", "O2")>>],
      \* an item whose title list is empty: title[0] raises IndexError
      [title |-> <<>>, DOI |-> "10.1/c",
       author |-> <<CrossrefAuthor("Jane", "Smith", None)>>] }

SemanticCatalogue ==
    { [title |-> "P1", authors |-> <<[name |-> "Jane Smith"]>>,
       externalIds |-> [kind |-> "object", DOI |-> None]],
      [title |-> "P1 revisited", authors |-> <<[name |-> "Someone Else"]>>,
       externalIds |-> [kind |-> "absent", DOI |-> None]],
      [title |-> "P1 revisited",
       authors |-> <<[name |-> "Nobody"], [name |-> "Ann Other"]>>,
       externalIds |-> [kind |-> "object", DOI |-> None]],
      \* an item whose externalIds is null: None.get raises AttributeError
      [title |-> "P1", authors |-> <<[name |-> "Jane Smith"]>>,
       externalIds |-> [kind |-> "null", DOI |-> None]] }

\* The batch runs use a short catalogue of one record per service
CrossrefShortCatalogue ==
    { [title |-> <<"P1">>, DOI |-> "10.1/a",
       author |-> <<CrossrefAuthor("Jane", "Smith", "O1")>>] }

SemanticShortCatalogue ==
    { [title |-> "P2", authors |-> <<[name |-> "Someone Else"]>>,
       externalIds |-> [kind |-> "object", DOI |-> None]] }

\* A requests exception, a non-success status, a body that is not the
\* expected JSON, or a ranking of up to n catalogue items
Responses(catalogue, n) ==
    {[kind |-> k, items |-> <<>>] : k \in {"neterr", "status", "badbody"}}
        \cup {[kind |-> "ok", items |-> t] :
                t \in {u \in SeqsUpTo(catalogue, n) : NoRepeat(u)}}

CrossrefResponses == Responses(CrossrefCatalogue, MaxRespHits)

SemanticResponses == Responses(SemanticCatalogue, MaxRespHits)

CrossrefShortResponses == Responses(CrossrefShortCatalogue, MaxRespHits)

SemanticShortResponses == Responses(SemanticShortCatalogue, MaxRespHits)

\* What can be typed at the name prompt
RawNames == SeqsUpTo(NameChars, MaxNameLen)

Identifiers == {None, "O1"} \X {None, "S1"} \X {None, "R1"}

Titles == {"P1", "P2"}

PubLists == SeqsUpTo(Titles, MaxPubs)

SinglePub == {<<"P1">>}

---------------------------------------------------------------------------
(* main *)

Init ==
    /\ pc = "prompt"
    /\ name = <<>>
    /\ orcid = None
    /\ scopus_id = None
    /\ researcher_id = None
    /\ pubs = <<>>
    /\ i = 0
    /\ resp = NoResponse
    /\ candidates = <<>>
    /\ best = NoCandidate
    /\ best_score = InitialBestScore
    /\ best_author_score = 0
    /\ best_doi = FALSE
    /\ res = NoResult
    /\ results = <<>>
    /\ authentic_count = 0
    /\ report = NoFile
    /\ exc = None

\* prompt_inputs: the name prompt repeats until the stripped input is
\* non-empty; an empty optional identifier becomes None
PromptInputs ==
    /\ pc = "prompt"
    /\ \E raw \in RawNames, ids \in Identifiers :
        /\ Strip(raw) # <<>>
        /\ name' = Strip(raw)
        /\ orcid' = ids[1]
        /\ scopus_id' = ids[2]
        /\ researcher_id' = ids[3]
    /\ pc' = "fetch"
    /\ UNCHANGED <<pubs, i, resp, candidates, best, best_score, best_author_score,
                   best_doi, res, results, authentic_count, report, exc>>

\* scholarly.fill and the list of publications with a title; then the
\* head of the for loop
FetchProfile(lists) ==
    /\ pc = "fetch"
    /\ \E l \in lists : pubs' = l
    /\ i' = 1
    /\ pc' = IF pubs' = <<>> THEN "write" ELSE "crossref"
    /\ UNCHANGED <<name, orcid, scopus_id, researcher_id, resp, candidates, best,
                   best_score, best_author_score, best_doi, res, results,
                   authentic_count, report, exc>>

\* verify_publication: crossref_lookup(pub["title"]), the left operand of
\* the concatenation
CrossrefLookup(responses) ==
    /\ pc = "crossref"
    /\ \E r \in responses : resp' = r
    /\ candidates' = crossref_lookup(resp')
    /\ pc' = "semantic"
    /\ UNCHANGED <<name, orcid, scopus_id, researcher_id, pubs, i, best, best_score,
                   best_author_score, best_doi, res, results, authentic_count,
                   report, exc>>

\* verify_publication: ... + semantic_lookup(pub["title"])
SemanticLookup(responses) ==
    /\ pc = "semantic"
    /\ \E r \in responses : resp' = r
    /\ candidates' = candidates \o semantic_lookup(resp')
    /\ pc' = "pool"
    /\ UNCHANGED <<name, orcid, scopus_id, researcher_id, pubs, i, best, best_score,
                   best_author_score, best_doi, res, results, authentic_count,
                   report, exc>>

\* verify_publication: if not candidates: return build_result(...)
ReturnNoCandidates ==
    /\ pc = "pool"
    /\ candidates = <<>>
    /\ res' = build_result(pubs[i], NoCandidate, EmptyPoolScore,
                           "SCHOLAR-CLAIMED OUTPUT",
                           "No external bibliographic record found",
                           verification_strength(orcid, FALSE))
    /\ resp' = NoResponse
    /\ pc' = "append"
    /\ UNCHANGED <<name, orcid, scopus_id, researcher_id, pubs, i, candidates, best,
                   best_score, best_author_score, best_doi, results,
                   authentic_count, report, exc>>

ScanOutcome ==
    Scan(pubs[i], name, orcid, scopus_id, researcher_id, candidates, ScanStart)

\* verify_publication: the for loop over a non-empty pool
ScanCandidates ==
    /\ pc = "pool"
    /\ candidates # <<>>
    /\ LET out == ScanOutcome
       IN  /\ out.exc = None
           /\ best' = out.best
           /\ best_score' = out.best_score
           /\ best_author_score' = out.best_author_score
           /\ best_doi' = out.best_doi
    /\ resp' = NoResponse
    /\ pc' = "classify"
    /\ UNCHANGED <<name, orcid, scopus_id, researcher_id, pubs, i, candidates, res,
                   results, authentic_count, report, exc>>

\* verify_publication: author_name_score raises inside the loop; nothing
\* in verify_publication or main catches it
ScanRaises ==
    /\ pc = "pool"
    /\ candidates # <<>>
    /\ LET out == ScanOutcome
       IN  /\ out.exc # None
           /\ exc' = out.exc
    /\ resp' = NoResponse
    /\ pc' = "crashed"
    /\ UNCHANGED <<name, orcid, scopus_id, researcher_id, pubs, i, candidates, best,
                   best_score, best_author_score, best_doi, res, results,
                   authentic_count, report>>

\* verify_publication: the label and return build_result(...)
Classify ==
    /\ pc = "classify"
    /\ res' = build_result(pubs[i], best, cap_score(best_score),
                           classification(best_author_score, best_score),
                           "Automated bibliographic verification",
                           verification_strength(orcid, best_doi))
    /\ pc' = "append"
    /\ UNCHANGED <<name, orcid, scopus_id, researcher_id, pubs, i, resp, candidates,
                   best, best_score, best_author_score, best_doi, results,
                   authentic_count, report, exc>>

\* main: the rest of the loop body, and the head of the next iteration;
\* the locals of the finished verify_publication call are gone
AppendResult ==
    /\ pc = "append"
    /\ results' = Append(results, res)
    /\ authentic_count' =
            IF res.classification = "AUTHENTIC" THEN authentic_count + 1
            ELSE authentic_count
    /\ i' = i + 1
    /\ pc' = IF i' <= Len(pubs) THEN "crossref" ELSE "write"
    /\ res' = NoResult
    /\ candidates' = <<>>
    /\ best' = NoCandidate
    /\ best_score' = InitialBestScore
    /\ best_author_score' = 0
    /\ best_doi' = FALSE
    /\ UNCHANGED <<name, orcid, scopus_id, researcher_id, pubs, resp, report, exc>>

\* main: open(outfile, "w"), DictWriter(fieldnames=results[0].keys()),
\* writeheader, writerows
WriteReport ==
    /\ pc = "write"
    /\ results # <<>>
    /\ report' = [written |-> TRUE, rows |-> results]
    /\ pc' = "done"
    /\ UNCHANGED <<name, orcid, scopus_id, researcher_id, pubs, i, resp, candidates,
                   best, best_score, best_author_score, best_doi, res, results,
                   authentic_count, exc>>

\* main: with no publication, open creates the file and results[0] raises
WriteReportRaises ==
    /\ pc = "write"
    /\ results = <<>>
    /\ report' = [written |-> TRUE, rows |-> <<>>]
    /\ exc' = "IndexError"
    /\ pc' = "crashed"
    /\ UNCHANGED <<name, orcid, scopus_id, researcher_id, pubs, i, resp, candidates,
                   best, best_score, best_author_score, best_doi, res, results,
                   authentic_count>>

VerifyNext ==
    \/ ReturnNoCandidates
    \/ ScanCandidates
    \/ ScanRaises
    \/ Classify
    \/ AppendResult
    \/ WriteReport

\* A run of main over a profile of up to MaxPubs publications
Next ==
    \/ PromptInputs
    \/ FetchProfile(PubLists)
    \/ CrossrefLookup(CrossrefShortResponses)
    \/ SemanticLookup(SemanticShortResponses)
    \/ VerifyNext
    \/ WriteReportRaises

Spec == Init /\ [][Next]_vars

\* A run of main over a profile of one publication, the services answering
\* from the full catalogues
NextOne ==
    \/ PromptInputs
    \/ FetchProfile(SinglePub)
    \/ CrossrefLookup(CrossrefResponses)
    \/ SemanticLookup(SemanticResponses)
    \/ VerifyNext

SpecOne == Init /\ [][NextOne]_vars

---------------------------------------------------------------------------
(* Vocabulary of the properties *)

Labels ==
    {"AUTHENTIC", "LIKELY AUTHENTIC", "SCHOLAR-CLAIMED OUTPUT", "LIKELY MISATTRIBUTED"}

Strengths ==
    {"Strong (ORCID + DOI)", "Moderate (Name + DOI)", "Basic (Scholar-only)"}

ResultFields ==
    {"claimed_title", "matched_title", "matched_source", "doi", "confidence_score",
     "classification", "verification_strength", "reason"}

\* verify_publication is running for publication i
InVerify == pc \in {"crossref", "semantic", "pool", "classify"}

\* verify_publication has returned res for publication i
Returned == pc = "append"

\* the scan of a non-empty pool has finished
Scanned == pc \in {"classify", "append"} /\ candidates # <<>>

\* the scores the loop computes for candidate c in the current call
ScoreOf(c) == Scored(pubs[i], name, orcid, scopus_id, researcher_id, c)

\* the position of the first candidate that attains the maximum composite
FirstMax ==
    CHOOSE k \in 1..Len(candidates) :
        /\ \A j \in 1..Len(candidates) : ScoreOf(candidates[j]).score <= ScoreOf(candidates[k]).score
        /\ \A j \in 1..(k - 1) : ScoreOf(candidates[j]).score < ScoreOf(candidates[k]).score

\* the adapter failed on response r: a requests exception, a non-success
\* status, an unexpected body, or an item that cannot be mapped
CrossrefFailed(r) ==
    r.kind # "ok" \/ \E k \in 1..Len(r.items) : CrossrefItemRaises(r.items[k])

SemanticFailed(r) ==
    r.kind # "ok" \/ \E k \in 1..Len(r.items) : SemanticItemRaises(r.items[k])

NoIdentifiers == orcid = None /\ scopus_id = None /\ researcher_id = None

---------------------------------------------------------------------------
(* C1 *)

\* C1: verify_publication never raises and returns a well-formed
\* VerificationResult (all eight fields) for every publication, every author
\* name that is non-empty after trimming, every combination of identifiers and
\* every adapter outcome.
C1_VerifyNeverRaises ==
    /\ (pc = "crashed" => i > Len(pubs))
    /\ (Returned =>
            /\ DOMAIN res = ResultFields
            /\ res.claimed_title = pubs[i]
            /\ res.classification \in Labels
            /\ res.verification_strength \in Strengths)

---------------------------------------------------------------------------
(* C2 *)

\* C2: the confidence_score of every returned VerificationResult lies in
\* [0.0, 100.0], for the empty pool and for every scored pool, also when the
\* composite exceeds 100 before clamping.
C2_ConfidenceInRange ==
    /\ (Returned => res.confidence_score >= 0 /\ res.confidence_score <= 10000)
    /\ \A k \in 1..Len(results) :
            results[k].confidence_score >= 0 /\ results[k].confidence_score <= 10000

\* a result whose composite was above 100 before the clamp
C2_Witness ==
    Returned /\ candidates # <<>> /\ best_score > 1000000
        /\ res.confidence_score = 10000

---------------------------------------------------------------------------
(* C3 *)

\* C3: for a non-empty pool the label is decided from the selected best
\* candidate, first match in this order: its author score >= 85 gives
\* AUTHENTIC whatever its composite; else unclamped composite >= 75 gives
\* LIKELY AUTHENTIC; else composite >= 60 gives SCHOLAR-CLAIMED OUTPUT; else
\* LIKELY MISATTRIBUTED.  The author score is that of the best-composite
\* candidate, not the maximum author score of the pool.
C3_ClassificationOrder ==
    (Returned /\ candidates # <<>>) =>
        LET b == ScoreOf(candidates[FirstMax])
        IN  res.classification =
                IF b.ascore >= 8500 THEN "AUTHENTIC"
                ELSE IF b.score >= 750000 THEN "LIKELY AUTHENTIC"
                ELSE IF b.score >= 600000 THEN "SCHOLAR-CLAIMED OUTPUT"
                ELSE "LIKELY MISATTRIBUTED"

\* AUTHENTIC from the author score alone, with a composite below 60
C3_Witness ==
    Returned /\ candidates # <<>> /\ res.classification = "AUTHENTIC"
        /\ best_score < 600000 /\ best_author_score >= 8500

---------------------------------------------------------------------------
(* C4 *)

\* C4: when both adapters return no candidates the result is score 85,
\* SCHOLAR-CLAIMED OUTPUT, reason "No external bibliographic record found",
\* empty matched_title and doi, strength "Basic (Scholar-only)", whichever of
\* ORCID, Scopus ID and Researcher ID are supplied.
C4_EmptyPoolResult ==
    (Returned /\ candidates = <<>>) =>
        /\ res.confidence_score = 8500
        /\ res.classification = "SCHOLAR-CLAIMED OUTPUT"
        /\ res.reason = "No external bibliographic record found"
        /\ res.matched_title = ""
        /\ res.doi = ""
        /\ res.verification_strength = "Basic (Scholar-only)"

\* the empty-pool result of a run where all three identifiers are supplied
C4_Witness ==
    Returned /\ candidates = <<>> /\ orcid # None /\ scopus_id # None
        /\ researcher_id # None /\ res.confidence_score = 8500

---------------------------------------------------------------------------
(* C5 *)

\* C5: after the scan of a non-empty pool the best candidate is the first
\* one, in adapter-concatenation order (Crossref records, then Semantic
\* Scholar records), whose composite equals the maximum over the pool; the
\* retained author score and DOI flag, and the result's matched_title,
\* matched_source and doi, are those of that candidate.
C5_FirstMaximumWins ==
    /\ \A j, k \in 1..Len(candidates) :
            (j < k /\ candidates[j].source = "SemanticScholar")
                => candidates[k].source = "SemanticScholar"
    /\ Scanned =>
        LET c == candidates[FirstMax]
        IN  /\ best = c
            /\ best_score = ScoreOf(c).score
            /\ best_author_score = ScoreOf(c).ascore
            /\ best_doi = ScoreOf(c).doi_present
            /\ (Returned =>
                    /\ res.matched_title = c.title
                    /\ res.matched_source = c.source
                    /\ res.doi = c.doi)

\* a later candidate, from the other adapter, ties with the retained one
C5_Witness ==
    /\ Returned /\ candidates # <<>>
    /\ \E k \in 1..Len(candidates) :
            /\ k > FirstMax
            /\ ScoreOf(candidates[k]).score = best_score
            /\ candidates[k].source # best.source
            /\ candidates[k] # best

---------------------------------------------------------------------------
(* C6 *)

\* C6: each adapter returns an empty sequence and raises nothing on every
\* failure (network exception, non-success status, malformed body, an item
\* that fails after earlier items were mapped); a failure of one adapter
\* leaves the other adapter's records in the pool and verification goes on.
C6_AdapterFailureIsEmpty ==
    [][ /\ (pc = "crossref" /\ CrossrefFailed(resp'))
            => (candidates' = <<>> /\ pc' = "semantic" /\ exc' = None)
        /\ (pc = "semantic" /\ SemanticFailed(resp'))
            => (candidates' = candidates /\ pc' = "pool" /\ exc' = None)
        /\ (pc = "semantic" /\ candidates = <<>> /\ ~SemanticFailed(resp'))
            => (Len(candidates') = Len(resp'.items) /\ pc' = "pool")
      ]_vars

\* Semantic Scholar failed on a later item after mapping the first one, and
\* the Crossref records are still in the pool
C6_Witness ==
    /\ pc = "pool"
    /\ resp.kind = "ok" /\ Len(resp.items) > 1
    /\ ~SemanticItemRaises(resp.items[1])
    /\ SemanticFailed(resp)
    /\ candidates # <<>>
    /\ \A k \in 1..Len(candidates) : candidates[k].source = "Crossref"

---------------------------------------------------------------------------
(* C7 *)

\* C7: for every response of the external service each lookup returns at
\* most 3 records, in the order of the hits; the pool of one verification
\* holds at most 6 records.
C7_AtMostThreeRecords ==
    /\ (pc = "semantic" => Len(candidates) <= Rows)
    /\ (pc \in {"pool", "classify", "append"} => Len(candidates) <= Rows + Limit)
    /\ (pc = "pool" =>
            Cardinality({k \in 1..Len(candidates) :
                            candidates[k].source = "SemanticScholar"}) <= Limit)

---------------------------------------------------------------------------
(* C8 *)

\* the pool is a single candidate with title score 80, no DOI, no
\* identifiers supplied, and an author score below 85
C8_Scenario ==
    /\ Returned /\ Len(candidates) = 1 /\ NoIdentifiers
    /\ ScoreOf(candidates[1]).ts = 8000
    /\ ~ScoreOf(candidates[1]).doi_present
    /\ ScoreOf(candidates[1]).ascore < 8500

\* C8 as stated: in that scenario the composite is about 0.65*80 = 52 (here:
\* within one point of 52) and the label is LIKELY MISATTRIBUTED.
C8_AlwaysMisattributed ==
    C8_Scenario =>
        /\ best_score >= 510000 /\ best_score <= 530000
        /\ res.classification = "LIKELY MISATTRIBUTED"

\* C8 amended: in that scenario the composite is 52 + 0.25 * authorNameScore
\* and the label is LIKELY MISATTRIBUTED when the author score is below 32
\* (composite below 60), SCHOLAR-CLAIMED OUTPUT otherwise.
C8_AuthorScoreCounts ==
    C8_Scenario =>
        LET a == author_name_score(name, candidates[1].authors).value
        IN  /\ best_score = 520000 + 25 * a
            /\ res.confidence_score = Round2(520000 + 25 * a)
            /\ res.classification =
                    IF a < 3200 THEN "LIKELY MISATTRIBUTED"
                    ELSE "SCHOLAR-CLAIMED OUTPUT"

\* the scenario with an author score between 32 and 85
C8_Witness ==
    C8_Scenario /\ res.classification = "SCHOLAR-CLAIMED OUTPUT"
        /\ best_author_score > 3200

---------------------------------------------------------------------------
(* C9 *)

\* C9: the batch loop resolves the publications one at a time (lookups,
\* scoring and classification of publication i before any lookup for i+1),
\* and the run ends with results and a written report holding one
\* VerificationResult per input publication, in input order.
C9_OneResultPerPublication ==
    /\ (InVerify \/ Returned) =>
            /\ i \in 1..Len(pubs)
            /\ Len(results) = i - 1
    /\ \A k \in 1..Len(results) : results[k].claimed_title = pubs[k]
    /\ pc \in {"done", "crashed"} =>
            /\ Len(results) = Len(pubs)
            /\ report.written
            /\ report.rows = results

---------------------------------------------------------------------------
(* C10 *)

\* C10 as stated: LIKELY MISATTRIBUTED only if the pool is non-empty and no
\* candidate of the pool has author score >= 85 and no candidate has
\* composite >= 60.
C10_NoCandidateBeatsAThreshold ==
    (Returned /\ res.classification = "LIKELY MISATTRIBUTED") =>
        /\ candidates # <<>>
        /\ \A k \in 1..Len(candidates) :
                /\ ScoreOf(candidates[k]).ascore < 8500
                /\ ScoreOf(candidates[k]).score < 600000

\* C10 amended: LIKELY MISATTRIBUTED only if the pool is non-empty, the
\* selected best candidate has author score below 85 and no candidate of the
\* pool has composite >= 60.
C10_BestBelowThresholds ==
    (Returned /\ res.classification = "LIKELY MISATTRIBUTED") =>
        /\ candidates # <<>>
        /\ ScoreOf(candidates[FirstMax]).ascore < 8500
        /\ \A k \in 1..Len(candidates) : ScoreOf(candidates[k]).score < 600000

\* LIKELY MISATTRIBUTED although another candidate of the pool has an
\* author score of 85 or more
C10_Witness ==
    /\ Returned /\ res.classification = "LIKELY MISATTRIBUTED"
    /\ \E k \in 1..Len(candidates) : ScoreOf(candidates[k]).ascore >= 8500

===========================================================================
